---- MODULE Spec2Model ----
(***************************************************************************)
(* HR dashboard (src/app.py): a Streamlit script that is re-run on every   *)
(* interaction.  One run = load the roster (memoized for TTL seconds),     *)
(* read the two sidebar widgets, compute the three KPIs and the monthly    *)
(* trend, and draw them.                                                   *)
(*                                                                         *)
(* Dates are day ordinals (1 = 2022-01-01) with a real Gregorian calendar  *)
(* over the years of Years; pandas' NaT is the ordinal NaT, which no       *)
(* comparison accepts.  Column names: hireDate is the column the loader    *)
(* names '입사일', exitDate is '퇴사일', department is '부서'; the          *)
(* selector's first option "전체" is written ALL.                           *)
(***************************************************************************)
EXTENDS Integers, Sequences, FiniteSets

VARIABLES
    sheet,          \* what conn.read returns now: the worksheet's rows
    now,            \* wall clock, seconds
    cache,          \* st.cache_data entry of load_data: NoEntry or [value, fetchedAt]
    phase,          \* "init" | "ok" (script ran to its end) | "error" (st.error + st.stop)
    errors,         \* st.error messages shown by the last run
    fetches,        \* conn.read calls made by the last run
    date_input,     \* the sidebar's date picker (session state)
    selectbox,      \* the sidebar's department selector (session state)
    df_master,      \* roster the last run worked on
    target_date,    \* the date the last run read from the picker
    selected_dept,  \* the department the last run read from the selector
    total_count,    \* KPI 1
    avg_tenure,     \* KPI 2, in tenths of a year
    exit_count,     \* KPI 3
    date_range,     \* the month-end reference points of the trend
    trend_data,     \* the trend series
    shown           \* what the last run put on the page

vars == <<sheet, now, cache, phase, errors, fetches, date_input, selectbox,
          df_master, target_date,
          selected_dept, total_count, avg_tenure, exit_count, date_range,
          trend_data, shown>>

-----------------------------------------------------------------------------
(* Bounds of the model *)

MaxRoster == 2      \* rows in the worksheet
MaxClock == 1200    \* the clock stops here

-----------------------------------------------------------------------------
(* Calendar *)

Years == 2022..2024

IsLeap(y) == (y % 4 = 0 /\ y % 100 # 0) \/ y % 400 = 0

DaysInMonth(y, m) ==
    CASE m \in {4, 6, 9, 11} -> 30
      [] m = 2 -> IF IsLeap(y) THEN 29 ELSE 28
      [] OTHER -> 31

DaysInYear(y) == IF IsLeap(y) THEN 366 ELSE 365

RECURSIVE DaysBeforeYear(_)
DaysBeforeYear(y) ==
    IF y \in Years /\ y - 1 \in Years
    THEN DaysBeforeYear(y - 1) + DaysInYear(y - 1)
    ELSE 0

RECURSIVE DaysBeforeMonth(_, _)
DaysBeforeMonth(y, m) ==
    IF m = 1 THEN 0 ELSE DaysBeforeMonth(y, m - 1) + DaysInMonth(y, m - 1)

\* datetime(y, m, d) / pd.to_datetime("y-m-d") as a day ordinal
ToOrdinal(y, m, d) == DaysBeforeYear(y) + DaysBeforeMonth(y, m) + d

\* the days of month m of year y, in order
DaysOfMonth(y, m) ==
    [d \in 1..DaysInMonth(y, m) |-> [year |-> y, month |-> m, day |-> d]]

RECURSIVE DaysFromMonth(_, _)
DaysFromMonth(y, m) ==
    IF m > 12 THEN <<>> ELSE DaysOfMonth(y, m) \o DaysFromMonth(y, m + 1)

RECURSIVE DaysFromYear(_)
\* the days of the years of Years from y on, and the first day after them
DaysFromYear(y) ==
    IF y \in Years THEN DaysFromMonth(y, 1) \o DaysFromYear(y + 1)
    ELSE <<[year |-> y, month |-> 1, day |-> 1]>>

\* the calendar date of each ordinal: Civil[ToOrdinal(y, m, d)] is y-m-d
Civil == DaysFromYear(2022)

\* Timestamp.year
YearOf(n) == Civil[n].year

\* Timestamp.strftime("%Y-%m"): the year and the month, zero padded by the format
Strftime(n) == <<Civil[n].year, Civil[n].month>>

\* every month end of the calendar, in order (the anchors of freq='ME')
MonthEnds ==
    <<>> \o [i \in 1..(12 * Cardinality(Years)) |->
                LET y == 2022 + ((i - 1) \div 12)
                    m == ((i - 1) % 12) + 1
                IN ToOrdinal(y, m, DaysInMonth(y, m))]

\* pd.date_range(start, end, freq='ME'): the month ends within [start, end]
PdDateRange(start, end) ==
    SelectSeq(MonthEnds, LAMBDA d : start <= d /\ d <= end)

-----------------------------------------------------------------------------
(* pandas values and comparisons *)

NaT == 0            \* pd.NaT: what errors='coerce' leaves for an unparseable date
NaN == "nan"        \* an empty department cell
ALL == "ALL"        \* the selector's "전체"
NoEntry == [value |-> <<>>, fetchedAt |-> 0 - 1]
None == 0 - 1       \* a name the run never assigned

\* Le with NaT ordered like a number
Le_plain(a, b) == a <= b

\* Series <= Timestamp, elementwise: NaT compares False
Le(a, b) == a # NaT /\ b # NaT /\ a <= b
Ge(a, b) == a # NaT /\ b # NaT /\ a >= b
Gt(a, b) == a # NaT /\ b # NaT /\ a > b
Lt(a, b) == a # NaT /\ b # NaT /\ a < b
\* Series.isna()
IsNa(a) == a = NaT
\* Series == value, elementwise: NaN equals nothing, itself included
EqDept(a, b) == a # NaN /\ b # NaN /\ a = b

\* pd.to_datetime(cell, errors='coerce')
ToDatetime(cell) == IF cell.k = "date" THEN cell.v ELSE NaT

-----------------------------------------------------------------------------
(* The worksheet: rows of raw cells, as conn.read returns them *)

DateCell(y, m, d) == [k |-> "date", v |-> ToOrdinal(y, m, d)]
TextCell == [k |-> "text", v |-> 0]       \* not a date, e.g. "TBD"
EmptyCell == [k |-> "empty", v |-> 0]

HireCells == <<DateCell(2022, 1, 10), DateCell(2023, 3, 1), TextCell>>
ExitCells == <<DateCell(2023, 1, 31), DateCell(2024, 1, 1),
               DateCell(2024, 6, 15), EmptyCell>>
DeptCells == <<"Sales", "Dev", NaN>>

RowIds == (1..Len(HireCells)) \X (1..Len(ExitCells)) \X (1..Len(DeptCells))
Rank(id) == (id[1] * Len(ExitCells) + id[2]) * Len(DeptCells) + id[3]
Row(id) == [hire |-> HireCells[id[1]], exit |-> ExitCells[id[2]],
            dept |-> DeptCells[id[3]]]

\* worksheets of at most MaxRoster rows; no aggregate depends on the order of
\* the rows, so one order per multiset of rows
Rosters ==
    UNION {{[i \in 1..n |-> Row(s[i])] :
                s \in {t \in [1..n -> RowIds] :
                          \A i \in 1..(n - 1) : Rank(t[i]) <= Rank(t[i + 1])}} :
           n \in 0..MaxRoster}

\* the scenario roster: {hire 2022-01-10, no exit}, {hire 2023-03-01, exit 2024-06-15}
ScenarioSheet ==
    <<[hire |-> DateCell(2022, 1, 10), exit |-> EmptyCell, dept |-> "Sales"],
      [hire |-> DateCell(2023, 3, 1), exit |-> DateCell(2024, 6, 15), dept |-> "Dev"]>>

\* the worksheets the full application is run on
SheetVersions ==
    {<<>>, ScenarioSheet,
     <<[hire |-> TextCell, exit |-> DateCell(2024, 1, 1), dept |-> NaN]>>}

\* the dates the date picker is set to
TargetDates ==
    {ToOrdinal(2022, 12, 31), ToOrdinal(2023, 1, 15), ToOrdinal(2023, 1, 31),
     ToOrdinal(2024, 6, 15), ToOrdinal(2024, 6, 16)}

AppTargetDates == {ToOrdinal(2023, 1, 15), ToOrdinal(2024, 6, 15)}

\* datetime.today(), the picker's default
Today == ToOrdinal(2024, 6, 15)

\* clock advances
TickSteps == {200, 399}

-----------------------------------------------------------------------------
(* load_data *)

TTL == 600

\* rename + the two pd.to_datetime(..., errors='coerce') columns
load_data(raw) ==
    [i \in 1..Len(raw) |->
        [hireDate |-> ToDatetime(raw[i].hire),
         exitDate |-> ToDatetime(raw[i].exit),
         department |-> raw[i].dept]]

\* CacheHit with half the window
CacheHit_half_ttl(c, t) == c # NoEntry /\ 2 * (t - c.fetchedAt) < TTL

\* st.cache_data(ttl=TTL): an entry is served while it is younger than TTL
CacheHit(c, t) == c # NoEntry /\ t - c.fetchedAt < TTL

-----------------------------------------------------------------------------
(* Sidebar *)

RECURSIVE Unique(_)
\* Series.unique(): the distinct values in order of first appearance
Unique(s) ==
    IF s = <<>> THEN <<>>
    ELSE LET u == Unique(SubSeq(s, 1, Len(s) - 1))
             x == s[Len(s)]
         IN IF \E i \in 1..Len(u) : u[i] = x THEN u ELSE Append(u, x)

dept_list(df) == <<ALL>> \o Unique([i \in 1..Len(df) |-> df[i].department])

-----------------------------------------------------------------------------
(* KPIs *)

\* mask_current with the exit day itself excluded
mask_current_strict(r, t) ==
    Le(r.hireDate, t) /\ (IsNa(r.exitDate) \/ Gt(r.exitDate, t))

mask_current(r, t) ==
    Le(r.hireDate, t) /\ (IsNa(r.exitDate) \/ Ge(r.exitDate, t))

dept_filter(df, sel) ==
    IF sel # ALL THEN SelectSeq(df, LAMBDA r : EqDept(r.department, sel)) ELSE df

df_current(df, t, sel) ==
    dept_filter(SelectSeq(df, LAMBDA r : mask_current(r, t)), sel)

RECURSIVE SumDays(_, _)
\* sum of (target_date - hireDate).dt.days over the rows
SumDays(df, t) ==
    IF df = <<>> THEN 0 ELSE (t - Head(df).hireDate) + SumDays(Tail(df), t)

DaysPerYear == 365

\* round(x, 1) of num/den >= 0, in tenths, halves to even
RoundTenths(num, den) ==
    LET q == (10 * num) \div den
        r == (10 * num) % den
    IN IF 2 * r > den \/ (2 * r = den /\ q % 2 = 1) THEN q + 1 ELSE q

\* avg_tenure_of without the emptiness guard: the mean of nothing
avg_tenure_unguarded(cur, t) ==
    IF cur # <<>> THEN RoundTenths(SumDays(cur, t), DaysPerYear * Len(cur)) ELSE None

avg_tenure_of(cur, t) ==
    IF cur # <<>> THEN RoundTenths(SumDays(cur, t), DaysPerYear * Len(cur)) ELSE 0

start_of_year(t) == ToOrdinal(YearOf(t), 1, 1)

\* mask_exit with January 1 itself excluded
mask_exit_after_new_year(r, t, sel) ==
    /\ Gt(r.exitDate, start_of_year(t)) /\ Le(r.exitDate, t)
    /\ (sel # ALL => EqDept(r.department, sel))

mask_exit(r, t, sel) ==
    /\ Ge(r.exitDate, start_of_year(t)) /\ Le(r.exitDate, t)
    /\ (sel # ALL => EqDept(r.department, sel))

exit_count_of(df, t, sel) == Len(SelectSeq(df, LAMBDA r : mask_exit(r, t, sel)))

-----------------------------------------------------------------------------
(* Trend *)

start_trend_date == ToOrdinal(2023, 1, 31)

date_range_of(t) ==
    IF Lt(t, start_trend_date) THEN PdDateRange(t, t)
    ELSE PdDateRange(start_trend_date, t)

\* mask_month with the exit day itself included
mask_month_inclusive(r, d) ==
    Le(r.hireDate, d) /\ (IsNa(r.exitDate) \/ Ge(r.exitDate, d))

mask_month(r, d) ==
    Le(r.hireDate, d) /\ (IsNa(r.exitDate) \/ Gt(r.exitDate, d))

\* trend_point without the department filter
trend_point_all_depts(df, d, sel) ==
    [label |-> Strftime(d),
     count |-> Len(SelectSeq(df, LAMBDA r : mask_month(r, d)))]

trend_point(df, d, sel) ==
    [label |-> Strftime(d),
     count |-> Len(dept_filter(SelectSeq(df, LAMBDA r : mask_month(r, d)), sel))]

trend_data_of(df, dr, sel) == [i \in 1..Len(dr) |-> trend_point(df, dr[i], sel)]

-----------------------------------------------------------------------------
(* Page *)

\* df_trend has one row per point of date_range, df_current total rows
page_of(total, dr) ==
    {"metrics", "table"}
        \cup (IF dr # <<>> THEN {"trend_chart"} ELSE {"trend_info"})
        \cup (IF total # 0 THEN {"dept_pie", "position_bar"} ELSE {})

\* st.selectbox: the chosen option while the selector offers it, else the first
selectbox_value(options, s) ==
    IF \E k \in 1..Len(options) : options[k] = s THEN s ELSE options[1]

\* sections 3-6 of the script, on roster df with the date picker at t and the
\* department selector at s
Compute(df, t, s) ==
        LET sel == selectbox_value(dept_list(df), s)
            cur == df_current(df, t, sel)
            dr == date_range_of(t)
            trend == trend_data_of(df, dr, sel)
        IN /\ date_input' = t
           /\ selectbox' = sel
           /\ df_master' = df
           /\ target_date' = t
           /\ selected_dept' = sel
           /\ total_count' = Len(cur)
           /\ avg_tenure' = avg_tenure_of(cur, t)
           /\ exit_count' = exit_count_of(df, t, sel)
           /\ date_range' = dr
           /\ trend_data' = trend
           /\ shown' = page_of(Len(cur), dr)
           /\ phase' = "ok"
           /\ errors' = 0

\* Halt without st.stop(): the script runs on into a second error
Halt_no_stop ==
    /\ phase' = "error"
    /\ errors' = 2
    /\ shown' = {"error", "metrics"}
    /\ date_input' = Today
    /\ selectbox' = ALL
    /\ df_master' = <<>>
    /\ target_date' = None
    /\ selected_dept' = ALL
    /\ total_count' = None
    /\ avg_tenure' = None
    /\ exit_count' = None
    /\ date_range' = <<>>
    /\ trend_data' = <<>>

\* except: st.error(...); st.stop(): the sidebar is not drawn, so the widgets
\* are back at their defaults in the next run
Halt ==
    /\ phase' = "error"
    /\ errors' = 1
    /\ shown' = {"error"}
    /\ date_input' = Today
    /\ selectbox' = ALL
    /\ df_master' = <<>>
    /\ target_date' = None
    /\ selected_dept' = ALL
    /\ total_count' = None
    /\ avg_tenure' = None
    /\ exit_count' = None
    /\ date_range' = <<>>
    /\ trend_data' = <<>>

-----------------------------------------------------------------------------
(* Script runs *)

\* a run whose load_data() is served from the cache
RenderCached(t, s) ==
    /\ CacheHit(cache, now)
    /\ fetches' = 0
    /\ Compute(cache.value, t, s)
    /\ UNCHANGED <<sheet, now, cache>>

\* a run whose load_data() reads the worksheet
RenderFetched(t, s) ==
    /\ ~CacheHit(cache, now)
    /\ fetches' = 1
    /\ cache' = [value |-> load_data(sheet), fetchedAt |-> now]
    /\ Compute(load_data(sheet), t, s)
    /\ UNCHANGED <<sheet, now>>

\* a run whose load_data() raises
RenderFailed ==
    /\ ~CacheHit(cache, now)
    /\ fetches' = 1
    /\ Halt
    /\ UNCHANGED <<sheet, now, cache>>

\* somebody edits the worksheet
EditSheet ==
    /\ \E s \in SheetVersions : s # sheet /\ sheet' = s
    /\ UNCHANGED <<now, cache, phase, errors, fetches, date_input, selectbox,
                   df_master, target_date,
                   selected_dept, total_count, avg_tenure, exit_count,
                   date_range, trend_data, shown>>

Tick ==
    /\ \E dt \in TickSteps : now + dt <= MaxClock /\ now' = now + dt
    /\ UNCHANGED <<sheet, cache, phase, errors, fetches, date_input, selectbox,
                   df_master, target_date,
                   selected_dept, total_count, avg_tenure, exit_count,
                   date_range, trend_data, shown>>

Blank ==
    /\ now = 0
    /\ cache = NoEntry
    /\ phase = "init"
    /\ errors = 0
    /\ fetches = 0
    /\ df_master = <<>>
    /\ target_date = None
    /\ selected_dept = ALL
    /\ total_count = None
    /\ avg_tenure = None
    /\ exit_count = None
    /\ date_range = <<>>
    /\ trend_data = <<>>
    /\ shown = {}

\* a new session: the widgets at their defaults
Init ==
    /\ sheet \in SheetVersions
    /\ date_input = Today
    /\ selectbox = ALL
    /\ Blank

\* what the sidebar of the last run lets the user set before the next run
DatePicks == IF phase = "ok" THEN AppTargetDates \cup {date_input} ELSE {date_input}
DeptPicks ==
    IF phase = "ok"
    THEN {dept_list(df_master)[k] : k \in 1..Len(dept_list(df_master))}
    ELSE {selectbox}

Next ==
    \/ \E t \in DatePicks : \E s \in DeptPicks : RenderCached(t, s)
    \/ \E t \in DatePicks : \E s \in DeptPicks : RenderFetched(t, s)
    \/ RenderFailed
    \/ EditSheet
    \/ Tick

Spec == Init /\ [][Next]_vars

\* the computations alone: any worksheet, the widgets set to any date and any
\* option of the selector, no clock, no edits
InitKpi ==
    /\ sheet \in Rosters
    /\ date_input \in TargetDates
    /\ selectbox \in {dept_list(load_data(sheet))[k] :
                         k \in 1..Len(dept_list(load_data(sheet)))}
    /\ Blank

NextKpi ==
    \/ RenderCached(date_input, selectbox)
    \/ RenderFetched(date_input, selectbox)
    \/ RenderFailed

SpecKpi == InitKpi /\ [][NextKpi]_vars

-----------------------------------------------------------------------------
(* Vocabulary of the properties *)

Rows == DOMAIN df_master
HireOf(i) == df_master[i].hireDate
ExitOf(i) == df_master[i].exitDate

\* row i passes the department filter of the last run; a blank department
\* equals no selected value
PassesDept(i) ==
    \/ selected_dept = ALL
    \/ /\ selected_dept # NaN
       /\ df_master[i].department = selected_dept

\* the last day of a month: the next day is the first of one
IsMonthEnd(d) == Civil[d + 1].day = 1

InclusiveAt(i, d) ==
    /\ HireOf(i) # NaT /\ HireOf(i) <= d
    /\ (ExitOf(i) = NaT \/ ExitOf(i) >= d)

StrictAt(i, d) ==
    /\ HireOf(i) # NaT /\ HireOf(i) <= d
    /\ (ExitOf(i) = NaT \/ ExitOf(i) > d)

InYearToDate(i, d) ==
    /\ ExitOf(i) # NaT
    /\ Civil[ExitOf(i)].year = Civil[d].year
    /\ ExitOf(i) <= d

Scenario == load_data(ScenarioSheet)

-----------------------------------------------------------------------------
(* C1 *)

\* C1: the headcount KPI is the number of rows that pass the department filter
\* and have hireDate <= D and (no exitDate or exitDate >= D); the scenario
\* roster has headcount 2 at 2024-06-15 and 1 at 2024-06-16.
C1_Headcount ==
    phase = "ok" =>
        /\ total_count =
              Cardinality({i \in Rows : PassesDept(i) /\ InclusiveAt(i, target_date)})
        /\ (df_master = Scenario /\ selected_dept = ALL =>
              /\ (target_date = ToOrdinal(2024, 6, 15) => total_count = 2)
              /\ (target_date = ToOrdinal(2024, 6, 16) => total_count = 1))

\* a run on the exit day of a row of the selected department, beside an active
\* row the filter removes
C1_Witness ==
    /\ phase = "ok"
    /\ target_date = ToOrdinal(2024, 6, 15)
    /\ selected_dept = "Sales"
    /\ \E i \in Rows :
          /\ ExitOf(i) = target_date /\ InclusiveAt(i, target_date)
          /\ df_master[i].department = "Sales"
    /\ \E i \in Rows :
          InclusiveAt(i, target_date) /\ df_master[i].department = NaN
    /\ total_count = 1

-----------------------------------------------------------------------------
(* C2 *)

\* C2: every trend point is a month end d, its count is the number of rows that
\* pass the department filter and have hireDate <= d and (no exitDate or
\* exitDate > d), its label is the year-month of d, and the points ascend.
C2_Trend ==
    phase = "ok" =>
        /\ Len(trend_data) = Len(date_range)
        /\ \A k \in DOMAIN date_range :
              /\ IsMonthEnd(date_range[k])
              /\ trend_data[k].count =
                    Cardinality({i \in Rows : PassesDept(i) /\ StrictAt(i, date_range[k])})
              /\ trend_data[k].label =
                    <<Civil[date_range[k]].year, Civil[date_range[k]].month>>
        /\ \A k \in DOMAIN date_range : \A l \in DOMAIN date_range :
              k < l => date_range[k] < date_range[l]

\* a 17-point series in which a row that left on 2023-01-31 is missing from the
\* first point and a row without department is filtered out of the last
C2_Witness ==
    /\ phase = "ok"
    /\ target_date = ToOrdinal(2024, 6, 15)
    /\ Len(trend_data) = 17
    /\ selected_dept = "Sales"
    /\ Len(df_master) = 2
    /\ \E i \in Rows :
          /\ ExitOf(i) = date_range[1] /\ HireOf(i) # NaT /\ HireOf(i) < ExitOf(i)
          /\ df_master[i].department = "Sales"
    /\ \E i \in Rows : StrictAt(i, date_range[17]) /\ df_master[i].department = NaN
    /\ trend_data[1].count = 0
    /\ trend_data[17].count = 0

-----------------------------------------------------------------------------
(* C3 *)

\* C3: the trend series has as many points as there are month ends from
\* 2023-01-31 to the reference date, and exactly one point, the reference date
\* itself, when the reference date precedes 2023-01-31; it is never empty.
C3_TrendLength ==
    phase = "ok" =>
        /\ Len(trend_data) >= 1
        /\ (target_date >= start_trend_date =>
              Len(trend_data) =
                 Cardinality({d \in start_trend_date..target_date : IsMonthEnd(d)}))
        /\ (target_date < start_trend_date =>
              /\ Len(trend_data) = 1
              /\ date_range = <<target_date>>)

-----------------------------------------------------------------------------
(* C4 *)

NoHire == {i \in Rows : HireOf(i) = NaT}
WithHire == SelectSeq(df_master, LAMBDA r : r.hireDate # NaT)

\* C4 as stated: rows without a hire date are in none of the three results,
\* i.e. every result is what the roster without those rows gives.
C4_NoHireNowhere ==
    phase = "ok" =>
        /\ total_count = Len(df_current(WithHire, target_date, selected_dept))
        /\ trend_data = trend_data_of(WithHire, date_range, selected_dept)
        /\ exit_count = exit_count_of(WithHire, target_date, selected_dept)

\* C4 amended: rows without a hire date are in neither the headcount nor any
\* trend point, whatever their exit date; ytdExits does not look at the hire
\* date and counts such a row when its exit date is in the window and it
\* passes the department filter.
C4_NoHireNotActive ==
    phase = "ok" =>
        /\ total_count = Len(df_current(WithHire, target_date, selected_dept))
        /\ trend_data = trend_data_of(WithHire, date_range, selected_dept)
        /\ exit_count =
              exit_count_of(WithHire, target_date, selected_dept)
              + Cardinality({i \in NoHire :
                                PassesDept(i) /\ InYearToDate(i, target_date)})

\* a row without hire date and without exit date beside a counted row, and a
\* row without hire date whose exit is in the window
C4_Witness ==
    /\ phase = "ok"
    /\ target_date = ToOrdinal(2024, 6, 15)
    /\ selected_dept = ALL
    /\ Len(df_master) = 2
    /\ \E i \in NoHire : ExitOf(i) = NaT
    /\ \E i \in Rows : InclusiveAt(i, target_date)
    /\ total_count = 1
    /\ trend_data[17].count = 1

-----------------------------------------------------------------------------
(* C5 *)

RECURSIVE SumHeadcounts(_)
\* the sum of the headcounts of the given selector values
SumHeadcounts(values) ==
    IF values = <<>> THEN 0
    ELSE Len(df_current(df_master, target_date, Head(values)))
         + SumHeadcounts(Tail(values))

\* C5: the headcount under ALL is the sum of the headcounts under each
\* distinct department value the selector offers.
C5_AllIsSumOfDepts ==
    phase = "ok" /\ selected_dept = ALL =>
        total_count = SumHeadcounts(Tail(dept_list(df_master)))

-----------------------------------------------------------------------------
(* C6 *)

\* C6 as stated: for every row with an exit date, at referenceDate = exitDate
\* the strict predicate is false and the inclusive predicate is true.
C6_BoundaryAllRows ==
    phase = "ok" =>
        \A i \in Rows :
            ExitOf(i) # NaT =>
                /\ ~mask_month(df_master[i], ExitOf(i))
                /\ mask_current(df_master[i], ExitOf(i))

\* C6 amended: the strict predicate is false at referenceDate = exitDate for
\* every row with an exit date; the inclusive predicate is true there for the
\* rows whose hire date is present and not after the exit date, false for the
\* others.
C6_Boundary ==
    phase = "ok" =>
        \A i \in Rows :
            ExitOf(i) # NaT =>
                /\ ~mask_month(df_master[i], ExitOf(i))
                /\ mask_current(df_master[i], ExitOf(i))
                      <=> (HireOf(i) # NaT /\ HireOf(i) <= ExitOf(i))

\* a run on the exit day of the only row, a month end: in the headcount, not
\* in the trend point of that day
C6_Witness ==
    /\ phase = "ok"
    /\ Len(df_master) = 1
    /\ selected_dept = ALL
    /\ target_date = ExitOf(1)
    /\ date_range = <<target_date>>
    /\ total_count = 1
    /\ trend_data[1].count = 0

-----------------------------------------------------------------------------
(* C7 *)

\* C7: ytdExits is the number of rows of the whole roster that pass the
\* department filter and whose exit date is in the year of D and not after D.
C7_YtdExits ==
    phase = "ok" =>
        exit_count =
            Cardinality({i \in Rows : PassesDept(i) /\ InYearToDate(i, target_date)})

\* an exit on January 1 of the year of D counted, beside an exit of the year
\* before, with nobody active
C7_Witness ==
    /\ phase = "ok"
    /\ target_date = ToOrdinal(2024, 6, 15)
    /\ Len(df_master) = 2
    /\ \E i \in Rows : ExitOf(i) = ToOrdinal(2024, 1, 1) /\ PassesDept(i)
    /\ \E i \in Rows : ExitOf(i) = ToOrdinal(2023, 1, 31) /\ PassesDept(i)
    /\ total_count = 0
    /\ exit_count = 1

-----------------------------------------------------------------------------
(* C8 *)

-----------------------------------------------------------------------------
(* C9 *)

\* a step that is a script run: neither the clock nor the worksheet moves
RunStep == now' = now /\ sheet' = sheet

\* C9: a run that starts less than TTL seconds after the last successful fetch
\* fetches nothing and works on the roster of that fetch; a run fetches only
\* when there is no cached roster or the cached one has reached the window.
C9_CacheWindow ==
    [][RunStep =>
          /\ (cache # NoEntry /\ now - cache.fetchedAt < 600 =>
                /\ fetches' = 0
                /\ cache' = cache
                /\ df_master' = cache.value)
          /\ (fetches' > 0 =>
                cache = NoEntry \/ now - cache.fetchedAt >= 600)]_vars

\* a run 599 seconds after the fetch, on a worksheet edited since: no fetch,
\* the roster of the fetch
C9_Witness ==
    /\ phase = "ok"
    /\ fetches = 0
    /\ cache # NoEntry
    /\ now - cache.fetchedAt = 599
    /\ df_master = cache.value
    /\ df_master # load_data(sheet)

-----------------------------------------------------------------------------
(* C10 *)

\* C10: a run whose load fails ends in the error state with one error message,
\* one fetch attempt, and no KPI, trend, chart or table computed or shown.
C10_LoadFailure ==
    phase = "error" =>
        /\ errors = 1
        /\ fetches = 1
        /\ shown = {"error"}
        /\ total_count = None /\ avg_tenure = None /\ exit_count = None
        /\ date_range = <<>> /\ trend_data = <<>>

\* a failed load while an expired roster is still in the cache
C10_Witness ==
    /\ phase = "error"
    /\ cache # NoEntry
    /\ now - cache.fetchedAt >= 600
    /\ shown = {"error"}

====
